---------------------------- MODULE Spec2Model ----------------------------
(***************************************************************************)
(* A model of src/main.py: the lane-crossing game (difficulty curve,       *)
(* Obstacle, Lane, World, Player and the session loop Game.run).           *)
(*                                                                         *)
(* Arithmetic.  The program computes with floats; the model computes with  *)
(* integers on a fixed grid that represents the program's products         *)
(* exactly:                                                                *)
(*   - a time is a number of tenths of a second (dt, the spawn, train and  *)
(*     warning timers);                                                    *)
(*   - difficulty(score) is a number of 1/400 (every value of the curve is *)
(*     a multiple of 1/400);                                               *)
(*   - a horizontal position, a width and the camera offset are numbers of *)
(*     1/PXU pixel, PXU = 40000, so that speed * difficulty * dt is an     *)
(*     integer for every speed in whole px/s.                              *)
(* random.uniform draws are taken in hundredths of the interval.  Drawing, *)
(* rendering and the dip animation of the log (presentation only) are not  *)
(* modelled.                                                               *)
(***************************************************************************)
EXTENDS Integers, Sequences, FiniteSets, TLC

(* ------------------------------ Config ------------------------------- *)
TILE == 48
GRID_W == 11
TIME_DEN == 10                      \* time units per second
DIFF_DEN == 400                     \* difficulty units per 1.0
PXU == 100 * DIFF_DEN               \* position units per pixel
STEP_U == PXU \div (DIFF_DEN * TIME_DEN)
                                    \* units moved at 1 px/s, difficulty 1/400, dt 1
SCREEN_W == GRID_W * TILE * PXU
SCREEN_H == 14 * TILE               \* pixels (only compared with Rect.top)
START_SAFE_ROWS == 6
LANE_LOOKAHEAD == 55
BASE_SCROLL_SPEED10 == TILE * 7     \* TILE * 0.70 px/s, in tenths of a px/s
CAR_SPEED_MIN == 120
CAR_SPEED_MAX == 170
LOG_SPEED_MIN == 90
LOG_SPEED_MAX == 130
TRAIN_SPEED == 600
CAR_SPAWN_MIN == 10
CAR_SPAWN_MAX == 16
LOG_SPAWN_MIN == 11
LOG_SPAWN_MAX == 17
TRAIN_INTERVAL_MIN == 60
TRAIN_INTERVAL_MAX == 100
TRAIN_WARNING_TIME == 11
MIN_GAP == (TILE * 3 * PXU) \div 4  \* TILE * 0.75
TRAIN_W == TILE * 16 * PXU          \* train_w, Player.update and Lane.draw
CULL_MARGIN == TILE * 5 * PXU       \* margin, Lane.update
PRUNE_BEHIND == 30                  \* camera_row - 30, World.update
UPDATE_BEHIND == 10                 \* camera_row - 10, World.update

LANE_GRASS == "grass"
LANE_ROAD == "road"
LANE_RIVER == "river"
LANE_RAIL == "rail"

Cols == 0 .. (GRID_W - 1)
Max(a, b) == IF a >= b THEN a ELSE b
Min(a, b) == IF a <= b THEN a ELSE b

(* ---------------------------- Difficulty ----------------------------- *)
\* the curve whose second piece rises from 0, not from 20: score / 60
difficultyFromZero(score) ==
    IF score <= 0 THEN 240
    ELSE IF score < 20 THEN 240 + (score * (400 - 240)) \div 20
    ELSE IF score < 80 THEN 400 + (score * (580 - 400)) \div 60
    ELSE 580

\* difficulty(score), in 1/400: 0.60 = 240, 1.00 = 400, 1.45 = 580.
difficulty(score) ==
    IF score <= 0 THEN 240
    ELSE IF score < 20 THEN 240 + (score * (400 - 240)) \div 20
    ELSE IF score < 80 THEN 400 + ((score - 20) * (580 - 400)) \div 60
    ELSE 580

(* ------------------------- The random stream -------------------------- *)
\* random.Random(seed) is a deterministic generator: a seed fixes the whole
\* stream and every draw advances it.  The model's generator is the
\* three-part Wichmann-Hill generator; a stream state is a triple.
RngSeed(seed) ==
    << 1 + (seed % 30268), 1 + ((7 * seed + 3) % 30306), 1 + ((13 * seed + 5) % 30322) >>

RngStep(s) ==
    << (171 * s[1]) % 30269, (172 * s[2]) % 30307, (170 * s[3]) % 30323 >>

RngBits(s) == s[1] + s[2] + s[3]

\* Each draw below reads the state it is given, which the caller has advanced.
Randbelow(n, s) == RngBits(s) % n
Random100(s) == RngBits(s) % 100                      \* random(), in 1/100
Uniform(a, b, s) == a + ((b - a) * Random100(s)) \div 100
RandInt(a, b, s) == a + Randbelow(b - a + 1, s)
Choice(seq, s) == seq[Randbelow(Len(seq), s) + 1]

\* random.shuffle: for i = len-1 down to 1, swap x[i] with x[randbelow(i+1)].
RECURSIVE ShuffleFrom(_, _, _)
ShuffleFrom(x, i, s) ==
    IF i <= 1 THEN [seq |-> x, rng |-> s]
    ELSE LET s1 == RngStep(s)
             j == Randbelow(i, s1) + 1
         IN ShuffleFrom([x EXCEPT ![i] = x[j], ![j] = x[i]], i - 1, s1)

Shuffle(x, s) == ShuffleFrom(x, Len(x), s)

\* sorted(S) for a set of columns.
SortedCols(S) == SelectSeq([i \in 1 .. GRID_W |-> i - 1], LAMBDA c : c \in S)

(* ----------------------------- Obstacle ------------------------------- *)
Obstacle(x, w, base_speed, direction) ==
    [x |-> x, w |-> w, base_speed |-> base_speed, dir |-> direction]

\* Obstacle.update
ObstacleUpdate(ob, dt, speed_mult) ==
    [ob EXCEPT !.x = ob.x + ob.dir * (ob.base_speed * speed_mult * dt * STEP_U)]

(* ------------------------------- Lane -------------------------------- *)
\* A lane is a record.  corridor_center records the value the local variable
\* of that name (center in the safe zone) had in _init_grass, -1 for the
\* other kinds; the program does not keep it.
OpenCols(lane) ==
    IF lane.type # LANE_GRASS THEN Cols ELSE Cols \ lane.blocked_cols

IsBlocked(lane, col) == col \in lane.blocked_cols

\* one tree more than drawn: candidates[:target_trees + 1]
SafeTreesOneMore(candidates, target_trees) ==
    {candidates[i] : i \in 1 .. Min(target_trees + 1, Len(candidates))}

\* for c in candidates[:target_trees]: blocked_cols.add(c)
SafeTrees(candidates, target_trees) ==
    {candidates[i] : i \in 1 .. Min(target_trees, Len(candidates))}

\* for c in candidates: stop at target_trees, keep 3 columns open, else add c
RECURSIVE AddTrees(_, _, _, _)
AddTrees(candidates, i, blocked, target_trees) ==
    IF i > Len(candidates) THEN blocked
    ELSE IF Cardinality(blocked) >= target_trees THEN blocked
    ELSE IF GRID_W - (Cardinality(blocked) + 1) < 3 THEN blocked
    ELSE AddTrees(candidates, i + 1, blocked \cup {candidates[i]}, target_trees)

\* the corridor without its last column: range(-(w // 2), w // 2)
CorridorShort(corridor_center, corridor_width) ==
    {Max(0, Min(GRID_W - 1, corridor_center + dx)) :
        dx \in (0 - (corridor_width \div 2)) .. ((corridor_width \div 2) - 1)}

\* The corridor of a lane beyond the safe zone, from its centre and width.
Corridor(corridor_center, corridor_width) ==
    {Max(0, Min(GRID_W - 1, corridor_center + dx)) :
        dx \in (0 - (corridor_width \div 2)) .. (corridor_width \div 2)}

\* corridor_center of a lane beyond the safe zone.  prev_open_cols = {} stands
\* for None and for the empty set alike (both take the else branch).
CorridorCenter(prev_open_cols, s) ==
    IF prev_open_cols # {} THEN Choice(SortedCols(prev_open_cols), s)
    ELSE Randbelow(GRID_W, s)

\* Lane._init_grass in the safe zone, from the shuffled candidates on
SafeGrass(center, target_trees, sh) ==
    [blocked_cols |-> SafeTrees(sh.seq, target_trees),
     corridor_center |-> center, rng |-> sh.rng]

\* Lane._init_grass beyond the safe zone, from the shuffled candidates on
OpenGrass(corridor_center, corridor, target_trees, sh) ==
    [blocked_cols |-> AddTrees(sh.seq, 1, {}, target_trees) \ corridor,
     corridor_center |-> corridor_center, rng |-> sh.rng]

\* Lane._init_grass beyond the safe zone, from the corridor centre on
GrassAround(corridor_center, s1) ==
    LET s2 == RngStep(s1)
        corridor == Corridor(corridor_center, Choice(<<2, 3>>, s2))
        s3 == RngStep(s2)
    IN OpenGrass(corridor_center, corridor, RandInt(2, 5, s3),
                 Shuffle(SortedCols(Cols \ corridor), s3))

\* Lane._init_grass: [blocked_cols, corridor_center, rng].
InitGrass(row, prev_open_cols, s) ==
    IF row < START_SAFE_ROWS
    THEN LET center == GRID_W \div 2
             corridor == {Max(0, center - 1), center, Min(GRID_W - 1, center + 1)}
             s1 == RngStep(s)
         IN SafeGrass(center, RandInt(0, 2, s1), Shuffle(SortedCols(Cols \ corridor), s1))
    ELSE GrassAround(CorridorCenter(prev_open_cols, RngStep(s)), RngStep(s))

\* Lane._edge_spawn_x
EdgeSpawnX(lane, w, s) ==
    IF lane.direction = 1 THEN (0 - w) - Uniform(0, TILE * 2 * PXU, s)
    ELSE SCREEN_W + Uniform(0, TILE * 2 * PXU, s)

\* min(obstacles, key = x) and max(obstacles, key = x + w): the first such one
MinByX(obs) ==
    obs[CHOOSE i \in 1 .. Len(obs) :
            /\ \A j \in 1 .. Len(obs) : obs[i].x <= obs[j].x
            /\ \A j \in 1 .. (i - 1) : obs[j].x > obs[i].x]

MaxByEnd(obs) ==
    obs[CHOOSE i \in 1 .. Len(obs) :
            /\ \A j \in 1 .. Len(obs) : obs[i].x + obs[i].w >= obs[j].x + obs[j].w
            /\ \A j \in 1 .. (i - 1) : obs[j].x + obs[j].w < obs[i].x + obs[i].w]

\* _can_spawn_with_gap without its test: every spawn is let through
CanSpawnAnywhere(lane, x, w) == TRUE

\* Lane._can_spawn_with_gap
CanSpawnWithGap(lane, x, w) ==
    IF lane.obstacles = << >> THEN TRUE
    ELSE IF lane.direction = 1
         THEN (x + w) <= (MinByX(lane.obstacles).x - MIN_GAP)
         ELSE LET nearest == MaxByEnd(lane.obstacles)
              IN x >= (nearest.x + nearest.w + MIN_GAP)

\* The identity of an Obstacle object, which the program compares with "is":
\* id is the position s of the random stream when the object was made, which
\* no two obstacles of a world share.  No operation reads it.
Identified(ob, s) ==
    [x |-> ob.x, w |-> ob.w, base_speed |-> ob.base_speed, dir |-> ob.dir, id |-> s]

\* spawn_obstacle giving each obstacle a speed of its own, drawn from s,
\* instead of the lane's base speed
SpawnAtEdgeOwnSpeed(lane, w, x, s) ==
    [lane |-> IF CanSpawnWithGap(lane, x, w)
              THEN [lane EXCEPT !.obstacles =
                       Append(@, Identified(Obstacle(x, w,
                                     Uniform(LOG_SPEED_MIN, LOG_SPEED_MAX, s),
                                     lane.direction), s))]
              ELSE lane,
     rng |-> s]

\* Lane.spawn_obstacle once the width is known: x is drawn from s, and the
\* obstacle is appended when the gap allows.  [lane, rng]
SpawnAtEdge(lane, w, x, s) ==
    [lane |-> IF CanSpawnWithGap(lane, x, w)
              THEN [lane EXCEPT !.obstacles =
                       Append(@, Identified(Obstacle(x, w, lane.base_speed,
                                                     lane.direction), s))]
              ELSE lane,
     rng |-> s]

\* Lane.spawn_obstacle: [lane, rng]
SpawnObstacle(lane, s) ==
    IF lane.type = LANE_ROAD
    THEN SpawnAtEdge(lane, 1 * TILE * PXU,
                     EdgeSpawnX(lane, 1 * TILE * PXU, RngStep(s)), RngStep(s))
    ELSE IF lane.type = LANE_RIVER
    THEN SpawnAtEdge(lane, Choice(<<2, 2, 3>>, RngStep(s)) * TILE * PXU,
                     EdgeSpawnX(lane, Choice(<<2, 2, 3>>, RngStep(s)) * TILE * PXU,
                                RngStep(RngStep(s))),
                     RngStep(RngStep(s)))
    ELSE [lane |-> lane, rng |-> s]

\* Lane._seed_obstacles, on the pair r = [lane, rng]
RECURSIVE SeedObstacles(_, _)
SeedObstacles(r, count) ==
    IF count <= 0 THEN r
    ELSE SeedObstacles(SpawnObstacle(r.lane, r.rng), count - 1)

\* Lane.__init__, a grass lane: the result g of _init_grass put into the lane
GrassLane(base, g) ==
    [lane |-> [base EXCEPT !.blocked_cols = g.blocked_cols,
                           !.corridor_center = g.corridor_center],
     rng |-> g.rng]

\* Lane.__init__: [lane, rng]
NewLane(row, lane_type, s, prev_open_cols) ==
    LET s1 == RngStep(s)
        s2 == RngStep(s1)
        s3 == RngStep(s2)
        base == [row |-> row, type |-> lane_type,
                 obstacles |-> << >>, blocked_cols |-> {},
                 direction |-> Choice(<<-1, 1>>, s1),
                 spawn_timer |-> 0, base_spawn_interval |-> 1 * TIME_DEN,
                 base_speed |-> 0,
                 train_timer |-> Uniform(TRAIN_INTERVAL_MIN, TRAIN_INTERVAL_MAX, s2),
                 train_warning |-> 0, train_active |-> FALSE, train_x |-> 0,
                 train_dir |-> Choice(<<-1, 1>>, s3),
                 corridor_center |-> -1]
    IN  IF lane_type = LANE_GRASS
        THEN GrassLane(base, InitGrass(row, prev_open_cols, s3))
        ELSE IF lane_type = LANE_ROAD
        THEN LET s4 == RngStep(s3)
                 s5 == RngStep(s4)
                 s6 == RngStep(s5)
             IN SeedObstacles(
                    [lane |-> [base EXCEPT
                         !.base_spawn_interval = Uniform(CAR_SPAWN_MIN, CAR_SPAWN_MAX, s4),
                         !.base_speed = Uniform(CAR_SPEED_MIN, CAR_SPEED_MAX, s5)],
                     rng |-> s6],
                    Choice(<<1, 1, 2>>, s6))
        ELSE IF lane_type = LANE_RIVER
        THEN LET s4 == RngStep(s3)
                 s5 == RngStep(s4)
                 s6 == RngStep(s5)
             IN SeedObstacles(
                    [lane |-> [base EXCEPT
                         !.base_spawn_interval = Uniform(LOG_SPAWN_MIN, LOG_SPAWN_MAX, s4),
                         !.base_speed = Uniform(LOG_SPEED_MIN, LOG_SPEED_MAX, s5)],
                     rng |-> s6],
                    Choice(<<1, 2>>, s6))
        ELSE LET s4 == RngStep(s3)
             IN [lane |-> [base EXCEPT !.train_timer =
                               Uniform(TRAIN_INTERVAL_MIN, TRAIN_INTERVAL_MAX, s4)],
                 rng |-> s4]

\* list.sort(key = x): a stable insertion sort
RECURSIVE InsertByX(_, _)
InsertByX(sorted, ob) ==
    IF sorted = << >> THEN << ob >>
    ELSE IF sorted[Len(sorted)].x <= ob.x THEN Append(sorted, ob)
    ELSE Append(InsertByX(SubSeq(sorted, 1, Len(sorted) - 1), ob), sorted[Len(sorted)])

RECURSIVE SortByX(_)
SortByX(obs) ==
    IF obs = << >> THEN << >>
    ELSE InsertByX(SortByX(SubSeq(obs, 1, Len(obs) - 1)), obs[Len(obs)])

\* The sweep of _enforce_no_overlap over the sorted list, from index i on.
RECURSIVE PushApart(_, _)
PushApart(obs, i) ==
    IF i > Len(obs) THEN obs
    ELSE LET min_x == obs[i - 1].x + obs[i - 1].w + MIN_GAP
         IN PushApart(IF obs[i].x < min_x THEN [obs EXCEPT ![i].x = min_x] ELSE obs,
                      i + 1)

\* Lane._enforce_no_overlap
EnforceNoOverlap(obs) ==
    IF Len(obs) <= 1 THEN obs ELSE PushApart(SortByX(obs), 2)

\* Lane.spawn_train
SpawnTrain(lane) ==
    [lane EXCEPT !.train_active = TRUE,
                 !.train_warning = 0,
                 !.train_x = IF lane.train_dir = 1 THEN 0 - (TILE * 12 * PXU)
                             ELSE SCREEN_W + TILE * 12 * PXU]

\* Lane._roll_next_train_interval: base / diff
RollNextTrainInterval(diff, s) ==
    (Uniform(TRAIN_INTERVAL_MIN, TRAIN_INTERVAL_MAX, s) * DIFF_DEN) \div diff

\* Lane._finish_train: [lane, rng]
FinishTrain(lane, diff, s) ==
    LET s1 == RngStep(s)
        s2 == RngStep(s1)
    IN [lane |-> [lane EXCEPT !.train_active = FALSE,
                              !.train_timer = RollNextTrainInterval(diff, s1),
                              !.train_dir = IF Random100(s2) < 50 THEN 0 - @ ELSE @],
        rng |-> s2]

\* The culling test of Lane.update
OnOrNearScreen(ob) ==
    (ob.x + ob.w) > (0 - CULL_MARGIN) /\ ob.x < (SCREEN_W + CULL_MARGIN)

\* Lane.update, "spawn road/river obstacles": [lane, rng]
UpdateSpawn(lane, dt, diff, s) ==
    LET timer == lane.spawn_timer + dt
    IN  \* spawn_timer >= base_spawn_interval / diff
        IF timer * diff >= lane.base_spawn_interval * DIFF_DEN
        THEN LET s1 == RngStep(s)
                 rolled == [lane EXCEPT
                     !.spawn_timer = 0,
                     !.base_spawn_interval =
                         IF lane.type = LANE_ROAD
                         THEN Uniform(CAR_SPAWN_MIN, CAR_SPAWN_MAX, s1)
                         ELSE Uniform(LOG_SPAWN_MIN, LOG_SPAWN_MAX, s1)]
             IN SpawnObstacle(rolled, s1)
        ELSE [lane |-> [lane EXCEPT !.spawn_timer = timer], rng |-> s]

\* Lane.update, the end of the train logic: the warning counts down
TickWarning(moved, dt) ==
    [lane |-> IF moved.lane.train_warning > 0
              THEN [moved.lane EXCEPT !.train_warning = Max(0, @ - dt)]
              ELSE moved.lane,
     rng |-> moved.rng]

\* Lane.update, "train logic": [lane, rng]
UpdateTrain(lane, dt, diff, s) ==
    TickWarning(
            IF ~lane.train_active
            THEN LET counted == [lane EXCEPT !.train_timer = @ - dt]
                     armed == IF counted.train_timer <= TRAIN_WARNING_TIME
                                 /\ counted.train_warning <= 0
                              THEN [counted EXCEPT !.train_warning = TRAIN_WARNING_TIME]
                              ELSE counted
                 IN [lane |-> IF armed.train_timer <= 0 THEN SpawnTrain(armed) ELSE armed,
                     rng |-> s]
            ELSE LET run == [lane EXCEPT !.train_x =
                                @ + lane.train_dir * (TRAIN_SPEED * diff * dt * STEP_U)]
                 IN IF run.train_dir = 1 /\ run.train_x > SCREEN_W + TILE * 8 * PXU
                    THEN FinishTrain(run, diff, s)
                    ELSE IF run.train_dir = -1 /\ run.train_x < 0 - (TILE * 12 * PXU)
                    THEN FinishTrain(run, diff, s)
                    ELSE [lane |-> run, rng |-> s],
            dt)

\* Lane.update, the call of _enforce_no_overlap, on the pair sp = [lane, rng]
Enforced(sp) ==
    [lane |-> [sp.lane EXCEPT !.obstacles = EnforceNoOverlap(@)], rng |-> sp.rng]

\* Lane.update: [lane, rng]
LaneUpdate(lane, dt, diff, s) ==
    LET kept == SelectSeq([i \in 1 .. Len(lane.obstacles) |->
                               ObstacleUpdate(lane.obstacles[i], dt, diff)],
                          OnOrNearScreen)
        culled == [lane EXCEPT !.obstacles = kept]
    IN  IF lane.type \in {LANE_ROAD, LANE_RIVER}
        THEN Enforced(UpdateSpawn(culled, dt, diff, s))
        ELSE IF lane.type = LANE_RAIL
        THEN UpdateTrain(culled, dt, diff, s)
        ELSE [lane |-> culled, rng |-> s]

(* ------------------------------- World ------------------------------- *)
\* A world is a record [lanes, max_generated_row, rng]: lanes is the dict
\* row -> Lane (a function whose domain is the set of rows present).
HasLane(world, row) == row \in DOMAIN world.lanes

\* recent, in World._choose_next_lane_type: the kinds of the lanes present
\* among the three rows before row, as the set of their rows
RecentRows(world, row) == {row - i : i \in {j \in 1 .. 3 : HasLane(world, row - j)}}

\* The weights of World._choose_next_lane_type
LaneWeights(world, row) ==
    LET streak(t) == Cardinality({r \in RecentRows(world, row) : world.lanes[r].type = t})
    IN  IF streak(LANE_RIVER) >= 2
        THEN << <<LANE_GRASS, 7>>, <<LANE_ROAD, 5>>, <<LANE_RAIL, 5>>, <<LANE_RIVER, 2>> >>
        ELSE IF streak(LANE_RAIL) >= 2
        THEN << <<LANE_GRASS, 7>>, <<LANE_ROAD, 5>>, <<LANE_RIVER, 5>>, <<LANE_RAIL, 2>> >>
        ELSE IF streak(LANE_ROAD) >= 2
        THEN << <<LANE_GRASS, 7>>, <<LANE_RIVER, 5>>, <<LANE_RAIL, 5>>, <<LANE_ROAD, 2>> >>
        ELSE << <<LANE_GRASS, 6>>, <<LANE_ROAD, 5>>, <<LANE_RIVER, 5>>, <<LANE_RAIL, 5>> >>

\* for t, w in weights: acc += w; if pick <= acc: return t     (pick in 1/100)
RECURSIVE PickWeighted(_, _, _, _)
PickWeighted(weights, i, acc, pick100) ==
    IF i > Len(weights) THEN LANE_GRASS
    ELSE IF pick100 <= (acc + weights[i][2]) * 100 THEN weights[i][1]
    ELSE PickWeighted(weights, i + 1, acc + weights[i][2], pick100)

\* World._choose_next_lane_type (one draw, read from s)
PickLaneType(weights, s) ==
    LET total == weights[1][2] + weights[2][2] + weights[3][2] + weights[4][2]
    IN PickWeighted(weights, 1, 0, total * Random100(s))

ChooseNextLaneType(world, row, s) == PickLaneType(LaneWeights(world, row), s)

\* World._ensure_lane, self.lanes[row] = Lane(...): made is [lane, rng]
PutLane(world, row, made) ==
    [lanes |-> (row :> made.lane) @@ world.lanes,
     max_generated_row |-> Max(world.max_generated_row, row),
     rng |-> made.rng]

\* World._ensure_lane; forced_type = "" stands for None.
EnsureLane(world, row, forced_type, prev_open_cols) ==
    IF HasLane(world, row) THEN world
    ELSE IF forced_type # ""
    THEN PutLane(world, row, NewLane(row, forced_type, world.rng, prev_open_cols))
    ELSE PutLane(world, row,
                 NewLane(row, ChooseNextLaneType(world, row, RngStep(world.rng)),
                         RngStep(world.rng), prev_open_cols))

\* World._generate_up_to: the loop from row r on
RECURSIVE GenerateFrom(_, _, _)
GenerateFrom(world, r, target_row) ==
    IF r > target_row THEN world
    ELSE IF HasLane(world, r - 1)
    THEN GenerateFrom(EnsureLane(world, r, "", OpenCols(world.lanes[r - 1])),
                      r + 1, target_row)
    ELSE GenerateFrom(EnsureLane(world, r, "", Cols), r + 1, target_row)

GenerateUpTo(world, target_row) ==
    GenerateFrom(world, world.max_generated_row + 1, target_row)

\* World.__init__, the loop over the safe rows
\* prev_open is Cols before the first row and lanes[r - 1].open_cols() after
RECURSIVE SafeRowsFrom(_, _)
SafeRowsFrom(world, r) ==
    IF r >= START_SAFE_ROWS THEN world
    ELSE SafeRowsFrom(
             EnsureLane(world, r, LANE_GRASS,
                        IF r = 0 THEN Cols ELSE OpenCols(world.lanes[r - 1])),
             r + 1)

\* World.__init__
NewWorld(seed) ==
    GenerateUpTo(
        [SafeRowsFrom([lanes |-> << >>, max_generated_row |-> -1, rng |-> RngSeed(seed)],
                      0)
            EXCEPT !.max_generated_row = START_SAFE_ROWS - 1],
        START_SAFE_ROWS + LANE_LOOKAHEAD)

\* World.update, the loop that updates the lanes of the window in row order
\* lane.update(...) on the lane of row r: u is [lane, rng] after the call
SetLane(world, r, u) == [world EXCEPT !.lanes[r] = u.lane, !.rng = u.rng]

RECURSIVE UpdateLanesFrom(_, _, _, _, _)
UpdateLanesFrom(world, r, max_row, dt, diff) ==
    IF r > max_row THEN world
    ELSE IF HasLane(world, r)
    THEN UpdateLanesFrom(
             SetLane(world, r, LaneUpdate(world.lanes[r], dt, diff, world.rng)),
             r + 1, max_row, dt, diff)
    ELSE UpdateLanesFrom(world, r + 1, max_row, dt, diff)

\* World.update without the pruning
PruneNothing(world, prune_before) == world

\* World.update, "prune far behind"
Prune(world, prune_before) ==
    [world EXCEPT !.lanes = [r \in {k \in DOMAIN world.lanes : k >= prune_before} |->
                                world.lanes[r]]]

\* World.update
WorldUpdate(world, dt, camera_row, diff) ==
    Prune(UpdateLanesFrom(GenerateUpTo(world, camera_row + LANE_LOOKAHEAD),
                          Max(0, camera_row - UPDATE_BEHIND),
                          camera_row + LANE_LOOKAHEAD, dt, diff),
          camera_row - PRUNE_BEHIND)

\* World.lane_at: the world after the call; the lane returned is lanes[row].
LaneAt(world, row) == EnsureLane(world, row, "", {})

(* ------------------------------ Player ------------------------------- *)
\* Player.__init__ (max_row is the score; was_on_log tells that the player
\* is riding a log)
NewPlayer ==
    LET col == GRID_W \div 2
    IN [col |-> col, row |-> 1, x_px |-> col * TILE * PXU + (TILE * PXU) \div 2,
        dead |-> FALSE, max_row |-> 1, was_on_log |-> FALSE]

\* _sync_col_from_x that leaves the column as it was
SyncColKept(p) == p

\* Player._sync_col_from_x: int(x_px // TILE)
SyncColFromX(p) == [p EXCEPT !.col = p.x_px \div (TILE * PXU)]

\* Player._snap_x_to_col
SnapXToCol(p) == [p EXCEPT !.x_px = p.col * TILE * PXU + (TILE * PXU) \div 2]

\* Player.kill
Kill(p) == [p EXCEPT !.dead = TRUE]

\* try_move without the test of the target lane: trees do not stop the move
MoveOntoAnyway(p, new_col, new_row, w1) ==
    [player |-> SnapXToCol([p EXCEPT !.col = new_col,
                                     !.row = new_row,
                                     !.max_row = Max(@, new_row)]),
     world |-> w1]

\* Player.try_move from the test of the target lane on; w1 is the world
\* after world.lane_at(new_row)
MoveOnto(p, new_col, new_row, w1) ==
    IF w1.lanes[new_row].type = LANE_GRASS /\ IsBlocked(w1.lanes[new_row], new_col)
    THEN [player |-> p, world |-> w1]
    ELSE [player |-> SnapXToCol([p EXCEPT !.col = new_col,
                                          !.row = new_row,
                                          !.max_row = Max(@, new_row)]),
          world |-> w1]

\* Player.try_move: [player, world]
TryMove(p, dcol, drow, world) ==
    LET new_col == p.col + dcol
        new_row == p.row + drow
    IN  IF p.dead THEN [player |-> p, world |-> world]
        ELSE IF ~(0 <= new_col /\ new_col < GRID_W) THEN [player |-> p, world |-> world]
        ELSE IF new_row < 0 THEN [player |-> p, world |-> world]
        ELSE MoveOnto(p, new_col, new_row, LaneAt(world, new_row))

\* ob.x <= x_px <= ob.x + ob.w
Overlaps(ob, x_px) == ob.x <= x_px /\ x_px <= ob.x + ob.w

\* for ob in lane.obstacles: if overlaps: ...; break  -- the index of the first
\* obstacle the player overlaps, 0 when there is none
FirstOverlap(obs, x_px) ==
    IF \E i \in 1 .. Len(obs) : Overlaps(obs[i], x_px)
    THEN CHOOSE i \in 1 .. Len(obs) :
             /\ Overlaps(obs[i], x_px)
             /\ \A j \in 1 .. (i - 1) : ~Overlaps(obs[j], x_px)
    ELSE 0

\* rect_from_tile(col, row, cam_y).top: pygame.Rect truncates y to an integer
RectTop(row, cam_y) ==
    LET y == (SCREEN_H - TILE) * PXU - (row * TILE * PXU - cam_y)
    IN IF y >= 0 THEN y \div PXU ELSE 0 - ((0 - y) \div PXU)

\* the collisions without the test of train_active: the extent of a train
\* that is not there kills
UpdateCollideAnyTrain(p, lane, cam_y) ==
    IF lane.type = LANE_ROAD /\ FirstOverlap(lane.obstacles, p.x_px) # 0
    THEN Kill(p)
    ELSE IF /\ lane.type = LANE_RAIL
            /\ lane.train_x <= p.x_px
            /\ p.x_px <= lane.train_x + TRAIN_W
    THEN Kill(p)
    ELSE IF RectTop(p.row, cam_y) > SCREEN_H THEN Kill(p)
    ELSE p

\* the collisions without the last test: a player the camera has left behind
\* lives on
UpdateCollideNeverBehind(p, lane, cam_y) ==
    IF lane.type = LANE_ROAD /\ FirstOverlap(lane.obstacles, p.x_px) # 0
    THEN Kill(p)
    ELSE IF /\ lane.type = LANE_RAIL
            /\ lane.train_active
            /\ lane.train_x <= p.x_px
            /\ p.x_px <= lane.train_x + TRAIN_W
    THEN Kill(p)
    ELSE p

\* Player.update, from "Road collision" on
UpdateCollide(p, lane, cam_y) ==
    IF lane.type = LANE_ROAD /\ FirstOverlap(lane.obstacles, p.x_px) # 0
    THEN Kill(p)
    ELSE IF /\ lane.type = LANE_RAIL
            /\ lane.train_active
            /\ lane.train_x <= p.x_px
            /\ p.x_px <= lane.train_x + TRAIN_W
    THEN Kill(p)
    ELSE IF RectTop(p.row, cam_y) > SCREEN_H THEN Kill(p)
    ELSE p

\* the carry without the difficulty: the log's base speed times dt
CarriedUnscaled(p, ob, dt) ==
    [p EXCEPT !.was_on_log = TRUE,
              !.x_px = @ + ob.dir * (ob.base_speed * DIFF_DEN * dt * STEP_U)]

\* Player.update on a river lane, carried by the log ob it overlaps
Carried(p, ob, dt) ==
    [p EXCEPT !.was_on_log = TRUE,
              !.x_px = @ + ob.dir * (ob.base_speed * difficulty(p.max_row) * dt * STEP_U)]

\* Player.update whose river logic lets a player off the logs live
UpdateOnLaneAfloat(p, dt, lane, cam_y) ==
    IF lane.type = LANE_RIVER /\ FirstOverlap(lane.obstacles, p.x_px) # 0
    THEN LET carried == Carried(p, lane.obstacles[FirstOverlap(lane.obstacles, p.x_px)], dt)
         IN IF carried.x_px < 0 \/ carried.x_px > SCREEN_W
            THEN Kill(carried)
            ELSE UpdateCollide(SyncColFromX(carried), lane, cam_y)
    ELSE UpdateCollide([p EXCEPT !.was_on_log = FALSE], lane, cam_y)

\* Player.update from "River logic" on, on the lane the player is on
UpdateOnLane(p, dt, lane, cam_y) ==
    IF lane.type = LANE_RIVER
    THEN LET i == FirstOverlap(lane.obstacles, p.x_px)
         IN IF i = 0 THEN Kill(p)
            ELSE LET carried == Carried(p, lane.obstacles[i], dt)
                 IN IF carried.x_px < 0 \/ carried.x_px > SCREEN_W
                    THEN Kill(carried)
                    ELSE UpdateCollide(SyncColFromX(carried), lane, cam_y)
    ELSE UpdateCollide([p EXCEPT !.was_on_log = FALSE], lane, cam_y)

\* Player.update after world.lane_at(self.row) has left the world w1
UpdateIn(p, dt, w1, cam_y) ==
    [player |-> UpdateOnLane(p, dt, w1.lanes[p.row], cam_y), world |-> w1]

\* Player.update without its first test: a dead player is updated too
PlayerUpdateDeadToo(p, dt, world, cam_y) ==
    UpdateIn(p, dt, LaneAt(world, p.row), cam_y)

\* Player.update: [player, world]
PlayerUpdate(p, dt, world, cam_y) ==
    IF p.dead THEN [player |-> p, world |-> world]
    ELSE UpdateIn(p, dt, LaneAt(world, p.row), cam_y)

(* ------------------------- Game: the session -------------------------- *)
\* Bounds of the model.
MaxTicks == 2           \* Spec: frames run in one session
MaxRow == 3             \* Spec: the player is not moved beyond this row
MaxWalkRow == 62        \* WalkSpec: the player is not moved beyond this row
MaxHazardTicks == 2     \* HazardSpec: frames run in one session
MaxHazardRow == 8       \* HazardSpec: the player is not moved beyond this row
MaxLaneTicks == 6       \* LaneSpec: updates of the lane
LaneSeedCount == 4      \* LaneSpec: the streams tried, 0 .. LaneSeedCount - 1
\* The frame lengths tried, in tenths of a second.
DtShort == 5
DtLong == 60
DtHuge == 800
\* The seeds tried, of those random.randrange(1_000_000) may give.
Seeds == {0}
WalkSeeds == {0, 51}
HazardSeeds == {42}
Moves == {<<-1, 0>>, <<1, 0>>, <<0, 1>>, <<0, -1>>}

VARIABLES
    world,        \* Game.world
    player,       \* Game.player
    cam_y,        \* Game.cam_y
    camera_row,   \* Game.camera_row
    dt,           \* dt of the frame being run
    pc,           \* position in the body of Game.run's loop
    ticks         \* frames run since the last reset (bounds the model)

vars == <<world, player, cam_y, camera_row, dt, pc, ticks>>

\* Game.__init__: reset() with one of the seeds
Start(seeds) ==
    /\ \E seed \in seeds : world = NewWorld(seed)
    /\ player = NewPlayer
    /\ cam_y = 0
    /\ camera_row = 0
    /\ dt = 0
    /\ pc = "events"
    /\ ticks = 0

\* The player and the world a call of Player.try_move or Player.update leaves
Leaves(r) == player' = r.player /\ world' = r.world

\* Game.run, a KEYDOWN of a direction key
KeyMove(dcol, drow, max_row, max_ticks) ==
    /\ pc = "events"
    /\ ticks < max_ticks
    /\ player.row + drow <= max_row
    /\ IF ~player.dead
       THEN Leaves(TryMove(player, dcol, drow, world))
       ELSE UNCHANGED <<player, world>>
    /\ UNCHANGED <<cam_y, camera_row, dt, pc, ticks>>

\* a KEYDOWN of K_r that resets whether the player is dead or not
KeyRestartAlive(seeds) ==
    /\ pc = "events"
    /\ \E seed \in seeds : world' = NewWorld(seed)
    /\ player' = NewPlayer
    /\ cam_y' = 0
    /\ camera_row' = 0
    /\ ticks' = 0
    /\ UNCHANGED <<dt, pc>>

\* Game.run, a KEYDOWN of K_r: Game.reset when the player is dead
KeyRestart(seeds) ==
    /\ pc = "events"
    /\ IF player.dead
       THEN /\ \E seed \in seeds : world' = NewWorld(seed)
            /\ player' = NewPlayer
            /\ cam_y' = 0
            /\ camera_row' = 0
            /\ ticks' = 0
       ELSE UNCHANGED <<world, player, cam_y, camera_row, ticks>>
    /\ UNCHANGED <<dt, pc>>

\* Game.run after the events: the clock's dt, the difficulty, the scroll, the
\* camera row and World.update
Frame(d, max_ticks) ==
    /\ pc = "events"
    /\ ticks < max_ticks
    /\ LET diff == difficulty(player.max_row)
           cam == IF ~player.dead
                  THEN cam_y + (BASE_SCROLL_SPEED10 * diff * d * STEP_U) \div 10
                  ELSE cam_y
           row == cam \div (TILE * PXU)
       IN /\ cam_y' = cam
          /\ camera_row' = row
          /\ world' = WorldUpdate(world, d, row, diff)
    /\ dt' = d
    /\ pc' = "player"
    /\ ticks' = ticks + 1
    /\ UNCHANGED player

\* Game.run: Player.update, which ends the frame
FramePlayer ==
    /\ pc = "player"
    /\ Leaves(PlayerUpdate(player, dt, world, cam_y))
    /\ pc' = "events"
    /\ UNCHANGED <<cam_y, camera_row, dt, ticks>>

\* Spec: sessions of MaxTicks frames near the start, some frames long enough
\* for the camera to leave the first rows far behind.  The key events of a
\* frame come before its update.
Init == Start(Seeds)

Next ==
    \/ \E m \in Moves : KeyMove(m[1], m[2], MaxRow, MaxTicks)
    \/ KeyRestart(Seeds)
    \/ \E d \in {DtLong, DtHuge} : Frame(d, MaxTicks)
    \/ FramePlayer

Spec == Init /\ [][Next]_vars

\* WalkSpec: the key events of the first frame.
WalkInit == Start(WalkSeeds)

WalkNext == \E m \in Moves : KeyMove(m[1], m[2], MaxWalkRow, 1)

WalkSpec == WalkInit /\ [][WalkNext]_vars

\* HazardSpec: sessions of MaxHazardTicks frames in which the player is moved
\* onto the first lanes beyond the safe zone.
HazardInit == Start(HazardSeeds)

HazardNext ==
    \/ \E m \in Moves : KeyMove(m[1], m[2], MaxHazardRow, MaxHazardTicks)
    \/ KeyRestart(HazardSeeds)
    \/ \E d \in {DtShort, DtLong} : Frame(d, MaxHazardTicks)
    \/ FramePlayer

HazardSpec == HazardInit /\ [][HazardNext]_vars

\* LaneSpec: one Lane on its own, built by Lane.__init__ at row START_SAFE_ROWS
\* from one of the streams and then updated by Lane.update, each time with
\* some frame length and some difficulty.
LaneKinds == {LANE_ROAD, LANE_RIVER, LANE_RAIL}
LaneDiffs == {difficulty(0), difficulty(80)}

\* The world that holds the one lane made
OneLane(made) ==
    [lanes |-> (START_SAFE_ROWS :> made.lane),
     max_generated_row |-> START_SAFE_ROWS, rng |-> made.rng]

LaneInit ==
    /\ \E seed \in 0 .. (LaneSeedCount - 1), kind \in LaneKinds :
          world = OneLane(NewLane(START_SAFE_ROWS, kind, RngSeed(seed), Cols))
    /\ player = NewPlayer
    /\ cam_y = 0
    /\ camera_row = 0
    /\ dt = 0
    /\ pc = "lane"
    /\ ticks = 0

LaneTick(d, diff) ==
    /\ pc = "lane"
    /\ ticks < MaxLaneTicks
    /\ world' = SetLane(world, START_SAFE_ROWS,
                        LaneUpdate(world.lanes[START_SAFE_ROWS], d, diff, world.rng))
    /\ dt' = d
    /\ ticks' = ticks + 1
    /\ UNCHANGED <<player, cam_y, camera_row, pc>>

LaneNext == \E d \in {DtShort, DtLong}, diff \in LaneDiffs : LaneTick(d, diff)

LaneSpec == LaneInit /\ [][LaneNext]_vars

(* --------------------- Reachability over the lanes -------------------- *)
\* The cells one legal Player.try_move away from a cell of the rows generated:
\* the target column is on the grid, the target row is not negative and the
\* target is not a blocked column of a grass lane.
LegalTargets(w, cell) ==
    {t \in {<<cell[1] + m[1], cell[2] + m[2]>> : m \in Moves} :
        /\ 0 <= t[1] /\ t[1] < GRID_W
        /\ t[2] >= 0
        /\ HasLane(w, t[2])
        /\ ~(w.lanes[t[2]].type = LANE_GRASS /\ IsBlocked(w.lanes[t[2]], t[1]))}

\* The cells reached from the cells seen, of which frontier are the new ones
RECURSIVE Reach(_, _, _)
ReachMore(w, seen, next) == Reach(w, seen \cup next, next)

Reach(w, seen, frontier) ==
    IF frontier = {} THEN seen
    ELSE ReachMore(w, seen, UNION {LegalTargets(w, c) : c \in frontier} \ seen)

StartCell == <<NewPlayer.col, NewPlayer.row>>

ReachableRows(w) == {c[2] : c \in Reach(w, {StartCell}, {StartCell})}

(* ------------------------- Properties: the lanes ---------------------- *)
\* The lane of LaneSpec
TheLane == world.lanes[START_SAFE_ROWS]

\* Any two distinct obstacles of a lane, taken in order of position, are at
\* least MIN_GAP apart.
GapKept(lane) ==
    \A i, j \in 1 .. Len(lane.obstacles) :
        (i # j /\ lane.obstacles[i].x <= lane.obstacles[j].x)
            => lane.obstacles[j].x >= lane.obstacles[i].x + lane.obstacles[i].w + MIN_GAP

\* C1: in every road or river lane, right after construction and after every
\* Lane.update, any two distinct obstacles taken in order of position satisfy
\* next.x >= prev.x + prev.w + MIN_GAP, whichever way the lane travels.
C1_GapKept ==
    \A r \in DOMAIN world.lanes :
        world.lanes[r].type \in {LANE_ROAD, LANE_RIVER} => GapKept(world.lanes[r])

\* C1 is exercised: a road or river lane that has been updated holds two
\* obstacles or more.
C1_TwoObstaclesAfterUpdate ==
    /\ pc = "lane"
    /\ ticks >= 1
    /\ TheLane.type \in {LANE_ROAD, LANE_RIVER}
    /\ Len(TheLane.obstacles) >= 2

\* C4: in a rail lane with no train, once the countdown is at or below the
\* warning threshold and the warning armed on the way has run out, no later
\* Lane.update arms the warning again: the warning is armed once between the
\* countdown's drop to the threshold and the spawn of the train.
C4_WarningArmedOnce ==
    [][\A r \in DOMAIN world.lanes \cap DOMAIN world'.lanes :
          (/\ world.lanes[r].type = LANE_RAIL
           /\ ~world.lanes[r].train_active
           /\ world.lanes[r].train_timer <= TRAIN_WARNING_TIME
           /\ world.lanes[r].train_warning = 0)
              => world'.lanes[r].train_warning = 0]_vars

(* ------------------------- Properties: the walk ----------------------- *)
\* C2: in every generated world there is, from the player's starting cell, a
\* sequence of legal one-cell moves that reaches every generated row: the
\* blocked columns of the grass lanes never wall the player off.
C2_EveryRowReachable ==
    (ticks = 0 /\ player = NewPlayer) => ReachableRows(world) = DOMAIN world.lanes

\* C3: every grass lane at a row beyond the safe zone, made by generate-ahead
\* or on demand by lane_at, has its corridor centre on a column open in the
\* previous row.
C3_CorridorFromPreviousRow ==
    \A r \in DOMAIN world.lanes :
        (/\ r >= START_SAFE_ROWS
         /\ world.lanes[r].type = LANE_GRASS
         /\ HasLane(world, r - 1))
            => world.lanes[r].corridor_center \in OpenCols(world.lanes[r - 1])

\* The lane a move request to row r is tested against: world.lane_at(r)
TargetLane(w, r) == LaneAt(w, r).lanes[r]

\* A move request the spec rejects: the target column is off the grid, the
\* target row is negative, or the target is a blocked column of a grass lane.
TargetRejected(p, dcol, drow, w) ==
    \/ ~(p.col + dcol \in Cols)
    \/ p.row + drow < 0
    \/ /\ TargetLane(w, p.row + drow).type = LANE_GRASS
       /\ p.col + dcol \in TargetLane(w, p.row + drow).blocked_cols

\* C6: a move request whose target column is outside 0 .. GRID_W - 1, whose
\* target row is negative, or whose target is a blocked column of a grass lane
\* leaves the player's row, column, horizontal position, score and alive flag
\* as they were.
C6_RejectedMoveChangesNothing ==
    \A m \in Moves :
        TargetRejected(player, m[1], m[2], world)
            => TryMove(player, m[1], m[2], world).player = player

\* C6 is exercised: the player has been moved up to a cell beside a tree and
\* at the left edge of the grid, where two of the four requests are rejected.
C6_BesideTreeAtEdge ==
    /\ pc = "events"
    /\ ~player.dead
    /\ player.max_row > NewPlayer.row
    /\ player.col = 0
    /\ \E m \in Moves :
          /\ player.col + m[1] \in Cols
          /\ player.row + m[2] >= 0
          /\ HasLane(world, player.row + m[2])
          /\ world.lanes[player.row + m[2]].type = LANE_GRASS
          /\ IsBlocked(world.lanes[player.row + m[2]], player.col + m[1])

(* ------------------------ Properties: the player ---------------------- *)
\* The lane Player.update finds under the player: world.lane_at(self.row)
\* leaves it in the world.
LaneUnder == world'.lanes[player.row]

\* The lane under the player between two frames
LaneHere == world.lanes[player.row]

\* x lies inside the interval [ob.x, ob.x + ob.w] of the obstacles i of a lane
InsideOf(lane, x) ==
    {i \in 1 .. Len(lane.obstacles) :
        lane.obstacles[i].x <= x /\ x <= lane.obstacles[i].x + lane.obstacles[i].w}

\* x lies inside the extent [train_x, train_x + 16 * TILE] of the lane's train
InsideTrain(lane, x) ==
    lane.train_x <= x /\ x <= lane.train_x + 16 * TILE * PXU

\* The player is below the bottom of the screen
OffScreen(p, cam) == RectTop(p.row, cam) > SCREEN_H

\* x is the centre of a column, where Player._snap_x_to_col puts the player
AtCentre(x) == x % (TILE * PXU) = (TILE * PXU) \div 2

\* C5: once the player is dead it stays dead, and its row, column, horizontal
\* position and score stay as they are, in every step but a restart: move
\* requests and Player.update do nothing to a dead player.
C5_DeadIsTerminal ==
    [][player.dead =>
          \/ player' = player
          \/ pc = "events" /\ player' = NewPlayer /\ ticks' = 0 /\ cam_y' = 0]_vars

\* C5 is exercised: a frame runs on a player that died in an earlier frame.
C5_FrameOnDeadPlayer == pc = "player" /\ player.dead /\ ticks >= 2

\* C7: a Player.update on a living player on a river lane makes the player
\* dead when its horizontal position is inside no obstacle's interval; when
\* it is inside one, the player dies in that update only by being carried off
\* the screen's width or by being below the screen.
C7_WaterKills ==
    [][(pc = "player" /\ ~player.dead /\ LaneUnder.type = LANE_RIVER) =>
          IF InsideOf(LaneUnder, player.x_px) = {}
          THEN player'.dead
          ELSE player'.dead =>
                  \/ player'.x_px < 0
                  \/ player'.x_px > SCREEN_W
                  \/ OffScreen(player, cam_y)]_vars

\* C7 is exercised: the first Player.update has drowned the player, who is
\* on a river lane on no log, on the screen, where a move had put it.
C7_Drowned ==
    /\ pc = "events"
    /\ ticks = 1
    /\ player.dead
    /\ LaneHere.type = LANE_RIVER
    /\ InsideOf(LaneHere, player.x_px) = {}
    /\ AtCentre(player.x_px)
    /\ ~OffScreen(player, cam_y)

\* C8: a Player.update on a living player on a river lane whose horizontal
\* position is inside an obstacle's interval changes that position by exactly
\* direction * base_speed * difficulty * dt of that obstacle, and the player
\* is dead after it if the carried position is below 0 or above SCREEN_W.
C8_CarriedByLog ==
    [][(pc = "player" /\ ~player.dead /\ LaneUnder.type = LANE_RIVER) =>
          \A i \in InsideOf(LaneUnder, player.x_px) :
              /\ player'.x_px = player.x_px +
                     LaneUnder.obstacles[i].dir *
                        (LaneUnder.obstacles[i].base_speed * difficulty(player.max_row)
                            * dt * STEP_U)
              /\ (player'.x_px < 0 \/ player'.x_px > SCREEN_W) => player'.dead]_vars

\* C8 is exercised: the player is alive on a river lane, inside a log's
\* interval and off the centre of its column, where only a carry puts it.
C8_Riding ==
    /\ pc = "events"
    /\ ticks >= 1
    /\ ~player.dead
    /\ LaneHere.type = LANE_RIVER
    /\ InsideOf(LaneHere, player.x_px) # {}
    /\ ~AtCentre(player.x_px)

\* C9: a Player.update on a living player makes the player dead when it is on
\* a road lane with its horizontal position inside an obstacle's interval, and
\* when it is on a rail lane whose train is active with the position inside
\* the train's extent; on a rail lane whose train is not active the player
\* does not die by collision (it dies only by being below the screen).
C9_CarsAndTrainsKill ==
    [][(pc = "player" /\ ~player.dead) =>
          /\ (LaneUnder.type = LANE_ROAD /\ InsideOf(LaneUnder, player.x_px) # {})
                => player'.dead
          /\ (/\ LaneUnder.type = LANE_RAIL
              /\ LaneUnder.train_active
              /\ InsideTrain(LaneUnder, player.x_px)) => player'.dead
          /\ (LaneUnder.type = LANE_RAIL /\ ~LaneUnder.train_active /\ player'.dead)
                => OffScreen(player, cam_y)]_vars

\* C9 is exercised: the player lies dead on a rail lane, on the screen and
\* inside the extent of the active train.
C9_RunOverByTrain ==
    /\ pc = "events"
    /\ ticks >= 1
    /\ player.dead
    /\ LaneHere.type = LANE_RAIL
    /\ LaneHere.train_active
    /\ InsideTrain(LaneHere, player.x_px)
    /\ ~OffScreen(player, cam_y)

(* ------------------------- Properties: the world ---------------------- *)
\* C10: after every World.update(dt, camera_row, diff) every row from
\* max(0, camera_row - 30) through camera_row + LANE_LOOKAHEAD has a lane, and
\* no lane of a row below camera_row - 30 remains.
C10_WindowKept ==
    pc = "player" =>
        /\ \A r \in Max(0, camera_row - 30) .. (camera_row + LANE_LOOKAHEAD) :
              HasLane(world, r)
        /\ \A r \in DOMAIN world.lanes : r >= camera_row - 30

\* C10 is exercised: a World.update has run with the camera more than 30 rows
\* up, the first rows are gone and rows beyond the first window are there.
C10_PrunedAndExtended ==
    /\ pc = "player"
    /\ camera_row > 30
    /\ ~HasLane(world, 0)
    /\ HasLane(world, START_SAFE_ROWS + LANE_LOOKAHEAD + 1)

\* A step that is Game.reset: a dead player is replaced by a fresh one
IsReset == player.dead /\ ~player'.dead

\* C11: after every operation every row from 0 up to the highest generated
\* row has a lane in the mapping, and lanes are created in strictly
\* increasing row order: a lane a step creates in a world that is kept lies
\* above every row generated before.
C11_RowsPresentInOrder ==
    [][/\ \A r \in 0 .. world'.max_generated_row : HasLane(world', r)
       /\ ~IsReset =>
             \A r \in DOMAIN world'.lanes \ DOMAIN world.lanes :
                 r > world.max_generated_row]_vars

(* ------------------- GrassSpec: grass lanes on their own -------------- *)
\* GrassSpec: grass lanes built one above the other by Lane.__init__, from
\* row 0 as World.__init__ builds them, each from the stream the one below
\* left and from some previous-row open set.
MaxGrassRow == 11        \* GrassSpec: the last row built
GrassSeedCount == 8      \* GrassSpec: the streams tried, 0 .. GrassSeedCount - 1

\* The world that holds the one lane made at a row
OnlyLane(row, made) ==
    [lanes |-> (row :> made.lane), max_generated_row |-> row, rng |-> made.rng]

\* The prev_open_cols tried above a lane: its open columns, none (None or the
\* empty set), and a single column at either edge of the grid
PrevSets(lane) == {OpenCols(lane), {}, {0}, {GRID_W - 1}}

GrassInit ==
    /\ \E seed \in 0 .. (GrassSeedCount - 1) :
          world = OnlyLane(0, NewLane(0, LANE_GRASS, RngSeed(seed), Cols))
    /\ player = NewPlayer
    /\ cam_y = 0
    /\ camera_row = 0
    /\ dt = 0
    /\ pc = "grass"
    /\ ticks = 0

GrassStep(prev_open_cols) ==
    /\ pc = "grass"
    /\ world.max_generated_row < MaxGrassRow
    /\ world' = OnlyLane(world.max_generated_row + 1,
                         NewLane(world.max_generated_row + 1, LANE_GRASS,
                                 world.rng, prev_open_cols))
    /\ UNCHANGED <<player, cam_y, camera_row, dt, pc, ticks>>

GrassNext ==
    \E prev_open_cols \in PrevSets(world.lanes[world.max_generated_row]) :
        GrassStep(prev_open_cols)

GrassSpec == GrassInit /\ [][GrassNext]_vars

\* The grass lane GrassSpec has built last
TheGrass == world.lanes[world.max_generated_row]

\* The corridor centre and its neighbours, clamped to the grid
Around(center) == {Max(0, center - 1), center, Min(GRID_W - 1, center + 1)}

\* C12: every grass lane generated at a row at or beyond the safe zone has at
\* least 3 open columns, and neither its corridor centre nor a neighbour of
\* the centre (clamped to the grid) is blocked, whatever the stream and the
\* previous row's open set (the empty or absent one included).
C12_OpenCorridor ==
    (pc = "grass" /\ TheGrass.row >= START_SAFE_ROWS) =>
        /\ Cardinality(OpenCols(TheGrass)) >= 3
        /\ TheGrass.corridor_center \in Cols
        /\ Around(TheGrass.corridor_center) \cap TheGrass.blocked_cols = {}

\* C12 is exercised: a lane beyond the safe zone, generated with its corridor
\* centred on the last column, holds as many trees as a lane can.
C12_FullAtEdge ==
    /\ pc = "grass"
    /\ TheGrass.row >= START_SAFE_ROWS
    /\ TheGrass.corridor_center = GRID_W - 1
    /\ Cardinality(TheGrass.blocked_cols) = 5

\* C13: every grass lane generated at a row inside the safe zone has the three
\* centred columns GRID_W \div 2 - 1, GRID_W \div 2, GRID_W \div 2 + 1 open and
\* at most 2 blocked columns, whatever the stream; the player's starting cell
\* is not blocked.
C13_SafeZoneOpen ==
    \A r \in DOMAIN world.lanes :
        (r < START_SAFE_ROWS /\ world.lanes[r].type = LANE_GRASS) =>
            /\ world.lanes[r].blocked_cols \cap
                  {GRID_W \div 2 - 1, GRID_W \div 2, GRID_W \div 2 + 1} = {}
            /\ Cardinality(world.lanes[r].blocked_cols) <= 2
            /\ r = NewPlayer.row => ~IsBlocked(world.lanes[r], NewPlayer.col)

\* C13 is exercised: the lane of the player's starting row holds a tree right
\* beside the centred corridor.
C13_TreeBesideCorridor ==
    /\ pc = "grass"
    /\ TheGrass.row = NewPlayer.row
    /\ TheGrass.blocked_cols \cap {GRID_W \div 2 - 2, GRID_W \div 2 + 2} # {}

\* C14: whenever the player is alive its column is floor(x_px / TILE), after
\* every try_move (the position is snapped to the centre of the column) and
\* after every Player.update (the column is recomputed from the carried
\* position).
C14_ColFromX ==
    ~player.dead => player.col = player.x_px \div (TILE * PXU)

\* C14 is exercised: the player is alive on a river lane after two frames,
\* left of the centre of its column, where a log has carried it.
C14_CarriedLeftOfCentre ==
    /\ pc = "events"
    /\ ticks = 2
    /\ ~player.dead
    /\ LaneHere.type = LANE_RIVER
    /\ player.x_px % (TILE * PXU) < (TILE * PXU) \div 2

\* C15: a restart is honoured only while the player is dead.  While the
\* player is alive no step takes the session back (the camera, the score and
\* the highest generated row never decrease); the step that makes a dead
\* player alive is among the key events and leaves a fresh Player (alive at
\* row 1, column GRID_W \div 2, score 1, not riding), camera offset 0, camera
\* row 0 and a newly constructed World.
C15_RestartOnlyWhenDead ==
    [][/\ ~player.dead =>
             /\ cam_y' >= cam_y
             /\ camera_row' >= camera_row
             /\ player'.max_row >= player.max_row
             /\ world'.max_generated_row >= world.max_generated_row
       /\ IsReset =>
             /\ pc = "events"
             /\ player' = NewPlayer
             /\ cam_y' = 0
             /\ camera_row' = 0
             /\ \E seed \in HazardSeeds : world' = NewWorld(seed)]_vars

\* C15 is exercised: a restart has been honoured after a frame was run (no
\* frame of the new session yet, dt still that of the last frame run).
C15_Restarted ==
    /\ pc = "events"
    /\ ticks = 0
    /\ dt > 0
    /\ player = NewPlayer
    /\ cam_y = 0
    /\ camera_row = 0

(* ------------------- DiffSpec: the difficulty curve ------------------- *)
\* DiffSpec: the score rises row by row and every frame scrolls the camera
\* at BASE_SCROLL_SPEED * difficulty(score); the lanes play no part.
MaxScore == 120          \* DiffSpec: the highest score
ScoreSpan == 12          \* the curve is compared at score - ScoreSpan .. score

\* Game.run: cam_y += (BASE_SCROLL_SPEED * diff) * dt
Scrolled(cam, diff, d) == cam + (BASE_SCROLL_SPEED10 * diff * d * STEP_U) \div 10

DiffInit ==
    /\ world = OnlyLane(0, NewLane(0, LANE_GRASS, RngSeed(0), Cols))
    /\ player = NewPlayer
    /\ cam_y = 0
    /\ camera_row = 0
    /\ dt = 0
    /\ pc = "diff"
    /\ ticks = 0

\* A frame in which the player has moved one row up: the score is one higher
DiffStep(d) ==
    /\ pc = "diff"
    /\ player.max_row < MaxScore
    /\ player' = [player EXCEPT !.row = @ + 1, !.max_row = @ + 1]
    /\ cam_y' = Scrolled(cam_y, difficulty(player.max_row + 1), d)
    /\ camera_row' = cam_y' \div (TILE * PXU)
    /\ dt' = d
    /\ ticks' = ticks + 1
    /\ UNCHANGED <<world, pc>>

DiffNext == \E d \in {DtShort} : DiffStep(d)

DiffSpec == DiffInit /\ [][DiffNext]_vars

\* difficulty(s) is the value of the piecewise-linear reference at s, in
\* 1/DIFF_DEN and with no rounding: 0.60 up to 0, 0.60 + (s / 20) * 0.40 below
\* 20, 1.00 + ((s - 20) / 60) * 0.45 below 80, 1.45 from 80 on
OnCurve(s) ==
    IF s <= 0 THEN 100 * difficulty(s) = 60 * DIFF_DEN
    ELSE IF s < 20 THEN 20 * 100 * difficulty(s) = (20 * 60 + s * 40) * DIFF_DEN
    ELSE IF s < 80 THEN 60 * 100 * difficulty(s) = (60 * 100 + (s - 20) * 45) * DIFF_DEN
    ELSE 100 * difficulty(s) = 145 * DIFF_DEN

\* C16: for every integer score s, difficulty(s) is the piecewise-linear
\* reference; difficulty(0) = 0.60, difficulty(20) = 1.00 and difficulty(50) =
\* 1.225; the value never decreases as s grows and lies in [0.60, 1.45].
C16_DifficultyCurve ==
    /\ \A s \in (player.max_row - ScoreSpan) .. player.max_row :
          /\ OnCurve(s)
          /\ difficulty(s) <= difficulty(s + 1)
          /\ 100 * difficulty(s) >= 60 * DIFF_DEN
          /\ 100 * difficulty(s) <= 145 * DIFF_DEN
    /\ player.max_row >= 50 =>
          /\ 100 * difficulty(0) = 60 * DIFF_DEN
          /\ 100 * difficulty(20) = 100 * DIFF_DEN
          /\ 1000 * difficulty(50) = 1225 * DIFF_DEN

\* C16 is exercised: the score has passed 80, so the curve has been computed
\* on each of its four pieces, and the camera has scrolled at those rates.
C16_PastEighty ==
    /\ pc = "diff"
    /\ player.max_row > 80
    /\ cam_y > 0

\* The content of a generated lane: its kind, travel direction and blocked
\* columns
Content(lane) ==
    [type |-> lane.type, direction |-> lane.direction,
     blocked_cols |-> lane.blocked_cols]

\* The World of a seed in which the rows up to row are generated one after
\* the other with no World.update in between
TickFree(seed, row) == GenerateUpTo(NewWorld(seed), row)

\* Every row of w beyond those World.__init__ makes has the content of that
\* row in ref
SameRows(w, ref) ==
    \A r \in DOMAIN w.lanes :
        r > START_SAFE_ROWS + LANE_LOOKAHEAD =>
            Content(w.lanes[r]) = Content(ref.lanes[r])

\* C17: the content of a generated lane is a function of the seed and of the
\* rows generated before it only: every row the session's World has generated
\* by generate-ahead has the content the same row has in the World of the
\* same seed whose rows were generated with no World.update in between
\* (sessions of Spec all start from the one seed of Seeds).
C17_ContentFromSeedOnly ==
    \A seed \in Seeds : SameRows(world, TickFree(seed, world.max_generated_row))

(* -------------------- Properties: the trains --------------------------- *)
\* C18: at the tick a rail lane's train becomes active, the whole extent
\* [train_x, train_x + 16 * TILE] of the train lies outside the screen
\* interval [0, SCREEN_W], for a train travelling right and for one
\* travelling left.
C18_TrainSpawnsOffScreen ==
    [][(TheLane.type = LANE_RAIL /\ ~TheLane.train_active /\ TheLane'.train_active) =>
          \/ TheLane'.train_x + TRAIN_W < 0
          \/ TheLane'.train_x > SCREEN_W]_vars

\* C19: a rail lane goes from active back to idle only at a tick where the
\* whole extent of the train has passed the far edge of the screen: train_x >
\* SCREEN_W for a train travelling right, train_x + 16 * TILE < 0 for a train
\* travelling left.
C19_TrainLeavesOffScreen ==
    [][(TheLane.type = LANE_RAIL /\ TheLane.train_active /\ ~TheLane'.train_active) =>
          IF TheLane.train_dir = 1
          THEN TheLane'.train_x > SCREEN_W
          ELSE TheLane'.train_x + TRAIN_W < 0]_vars

(* -------------------- Properties: rejected moves ---------------------- *)
\* C20: a rejected move request (the target column outside the grid, the
\* target row negative, the target a blocked column of a grass lane, or the
\* player dead) changes no state at all: the World's lane mapping, its highest
\* generated row and the position of its random stream are as they were.
C20_RejectedMoveLeavesWorld ==
    \A m \in Moves :
        (player.dead \/ TargetRejected(player, m[1], m[2], world))
            => TryMove(player, m[1], m[2], world).world = world

(* ------------------- a player carried along a river -------------------- *)
\* RideSpec: the lane of row START_SAFE_ROWS is a river; the player waits on
\* the row below it, steps onto the river at some column between two frames,
\* and is carried by what it lands on.  The frames are those of Game.run.
MaxRideTicks == 6
RideSeeds == {17, 88}

\* the player after it has walked up the safe rows to the last one
Ashore ==
    [NewPlayer EXCEPT !.row = START_SAFE_ROWS - 1, !.max_row = START_SAFE_ROWS - 1]

RideInit ==
    /\ \E seed \in RideSeeds :
          world = OneLane(NewLane(START_SAFE_ROWS, LANE_RIVER, RngSeed(seed), Cols))
    /\ player = Ashore
    /\ cam_y = 0
    /\ camera_row = 0
    /\ dt = 0
    /\ pc = "shore"
    /\ ticks = 0

\* a KEYDOWN of K_UP, the player standing at column c of the bank
Hop(c) ==
    /\ pc = "shore"
    /\ Leaves(TryMove([player EXCEPT !.col = c], 0, 1, world))
    /\ pc' = "ride"
    /\ UNCHANGED <<cam_y, camera_row, dt, ticks>>

\* a KEYDOWN of K_LEFT or K_RIGHT on the river
RideMove(dcol) ==
    /\ pc = "ride"
    /\ ~player.dead
    /\ ticks < MaxRideTicks
    /\ Leaves(TryMove(player, dcol, 0, world))
    /\ UNCHANGED <<cam_y, camera_row, dt, pc, ticks>>

\* World.update that moves every lane as at difficulty 1.00, whatever diff is
RiverUpdateUnscaled(w, d, row, diff) ==
    UpdateLanesFrom(w, Max(0, row - UPDATE_BEHIND), row + LANE_LOOKAHEAD, d, DIFF_DEN)

\* World.update of a world whose rows are not generated: the lanes of the
\* rows camera_row - 10 .. camera_row + LANE_LOOKAHEAD are updated
RiverUpdate(w, d, row, diff) ==
    UpdateLanesFrom(w, Max(0, row - UPDATE_BEHIND), row + LANE_LOOKAHEAD, d, diff)

\* one frame of Game.run: the scroll, World.update and, once the player is on
\* the river, Player.update
RideFrame(d) ==
    /\ pc \in {"shore", "ride"}
    /\ ticks < MaxRideTicks
    /\ cam_y' = IF ~player.dead
                THEN Scrolled(cam_y, difficulty(player.max_row), d)
                ELSE cam_y
    /\ camera_row' = cam_y' \div (TILE * PXU)
    /\ IF pc = "ride"
       THEN Leaves(PlayerUpdate(player, d,
                                RiverUpdate(world, d, camera_row',
                                            difficulty(player.max_row)),
                                cam_y'))
       ELSE /\ world' = RiverUpdate(world, d, camera_row', difficulty(player.max_row))
            /\ player' = player
    /\ dt' = d
    /\ ticks' = ticks + 1
    /\ UNCHANGED pc

RideNext ==
    \/ \E c \in Cols : Hop(c)
    \/ \E dcol \in {-1, 1} : RideMove(dcol)
    \/ \E d \in {DtShort, DtLong} : RideFrame(d)

RideSpec == RideInit /\ [][RideNext]_vars

\* C21: a player that is alive is in a column of the grid, 0 .. GRID_W - 1,
\* after any moves and frames, a log carrying it to the edge included
C21_ColInGrid == ~player.dead => player.col \in Cols

\* The identities of the obstacles of a lane, and the obstacle of identity k
IdsOf(lane) == {lane.obstacles[i].id : i \in 1 .. Len(lane.obstacles)}

ById(lane, k) ==
    lane.obstacles[CHOOSE i \in 1 .. Len(lane.obstacles) : lane.obstacles[i].id = k]

\* The obstacles of lane made by the update that led to it from before
SpawnedIn(before, lane) == IdsOf(lane) \ IdsOf(before)

\* ob lies where _edge_spawn_x puts a new obstacle of the lane
AtSpawnEdge(lane, ob) ==
    IF lane.direction = 1
    THEN (0 - ob.w) - TILE * 2 * PXU <= ob.x /\ ob.x <= 0 - ob.w
    ELSE SCREEN_W <= ob.x /\ ob.x <= SCREEN_W + TILE * 2 * PXU

\* Every obstacle that is in the lane before and after an update of diff has
\* been displaced by the movement of Obstacle.update and by nothing else
MovedOnly(before, lane, d, diff) ==
    \A k \in IdsOf(before) \cap IdsOf(lane) :
        ById(lane, k).x - ById(before, k).x =
            before.direction * (before.base_speed * diff * d * STEP_U)

\* C22: the obstacles of a road or river lane all have the lane's direction
\* and base speed; an update of the lane leaves the left-to-right order of
\* the obstacles that stay, and the gaps between them, as they were; and the
\* no-overlap pass moves nothing: the obstacles that stay are displaced by
\* the movement alone and the one that is spawned stays at the spawn edge
C22_NeverPass ==
    [][TheLane.type \in {LANE_ROAD, LANE_RIVER} =>
         /\ \A i \in 1 .. Len(TheLane'.obstacles) :
               /\ TheLane'.obstacles[i].dir = TheLane'.direction
               /\ TheLane'.obstacles[i].base_speed = TheLane'.base_speed
         /\ \A a, b \in IdsOf(TheLane) \cap IdsOf(TheLane') :
               /\ ById(TheLane', a).x - ById(TheLane', b).x =
                      ById(TheLane, a).x - ById(TheLane, b).x
               /\ ById(TheLane', a).w = ById(TheLane, a).w
         /\ \E diff \in LaneDiffs : MovedOnly(TheLane, TheLane', dt', diff)
         /\ \A k \in SpawnedIn(TheLane, TheLane') :
               AtSpawnEdge(TheLane', ById(TheLane', k))]_vars

\* Two logs of a river lane that both stayed through the last three updates,
\* one of them made by an update and not by the lane's construction
C22_TwoLogsAfloat ==
    /\ TheLane.type = LANE_RIVER
    /\ ticks >= 3
    /\ \E i, j \in 1 .. Len(TheLane.obstacles) :
          /\ i # j
          /\ TheLane.obstacles[i].x >= 0
          /\ TheLane.obstacles[j].x >= 0
          /\ TheLane.obstacles[i].x + TheLane.obstacles[i].w <= SCREEN_W
          /\ TheLane.obstacles[j].x + TheLane.obstacles[j].w <= SCREEN_W

\* The log a player at x_px is on in lane, the first it overlaps (log_ref of
\* Player.update), as the set of its identity; empty when it is on none
LogUnder(lane, x_px) ==
    IF FirstOverlap(lane.obstacles, x_px) = 0 THEN {}
    ELSE {lane.obstacles[FirstOverlap(lane.obstacles, x_px)].id}

\* The position of the left edge of the log of lane whose identity is in ks
LeftEdge(lane, ks) == ById(lane, CHOOSE k \in ks : TRUE).x

\* A frame of RideSpec through which a living player stays on one log: the
\* log it is on before the frame is the one Player.update finds under it
\* after World.update, and the player is alive after the frame
StaysAboard ==
    /\ pc = "ride"
    /\ ticks' = ticks + 1
    /\ ~player.dead
    /\ ~player'.dead
    /\ LogUnder(TheLane, player.x_px) # {}
    /\ LogUnder(TheLane', player.x_px) = LogUnder(TheLane, player.x_px)

\* C23: through a frame in which a living player stays on the same log, the
\* player's offset from the log's left edge is kept: Player.update displaces
\* the player by what World.update displaced the log
C23_OffsetKept ==
    [][StaysAboard =>
         /\ player'.x_px - LeftEdge(TheLane', LogUnder(TheLane, player.x_px)) =
                player.x_px - LeftEdge(TheLane, LogUnder(TheLane, player.x_px))
         /\ player'.x_px - player.x_px =
                LeftEdge(TheLane', LogUnder(TheLane, player.x_px)) -
                    LeftEdge(TheLane, LogUnder(TheLane, player.x_px))]_vars

\* A living player still on a log after two frames of DtShort aboard with no
\* move: it is two carries away from the centre of the column it stepped on
C23_TwoFramesAboard ==
    /\ pc = "ride"
    /\ ~player.dead
    /\ player.was_on_log
    /\ LogUnder(TheLane, player.x_px) # {}
    /\ \E c \in Cols :
          player.x_px - SnapXToCol([player EXCEPT !.col = c]).x_px =
              2 * (TheLane.direction *
                     (TheLane.base_speed * difficulty(player.max_row) * DtShort * STEP_U))

(* ------------------- a player the camera leaves behind ------------------ *)
\* FallSpec: the session of Spec in which the keys are pressed before the
\* first frame only, and the frames go on for as long as the player is alive.
\* Game.run is a loop that never waits for a key: a frame that can run does.
MaxFallRow == 2
MaxFallTicks == 40
FallDts == {DtShort, DtLong}

\* Game.run after the events, for a living player; what comes after the
\* death is not followed
FallFrame(d) ==
    /\ ~player.dead
    /\ Frame(d, MaxFallTicks)

FallNext ==
    \/ \E m \in Moves : KeyMove(m[1], m[2], MaxFallRow, 1)
    \/ \E d \in FallDts : FallFrame(d)
    \/ FramePlayer

\* The steps of FallNext that are a FallFrame, and those that are FramePlayer:
\* no other step takes pc from "events" to "player", or back
FrameRuns == pc = "events" /\ ~player.dead /\ ticks < MaxFallTicks /\ pc' = "player"
FrameEnds == pc = "player" /\ pc' = "events"

FallSpec ==
    /\ Start(Seeds)
    /\ [][FallNext]_vars
    /\ WF_pc(FrameRuns)
    /\ WF_pc(FrameEnds)

\* How far the top of the player's row is below the bottom edge of the
\* visible area, in 1/PXU of a pixel: y - SCREEN_H of rect_from_tile
BelowBottom == cam_y - (player.row + 1) * TILE * PXU

\* The frame of a living player scrolls the camera forward
CameraAdvances ==
    [][(pc = "events" /\ pc' = "player" /\ ~player.dead) => cam_y' > cam_y]_vars

=============================================================================
